---- MODULE Spec2Model ----
(***************************************************************************)
(* NewsQuest: the game session of src/App.tsx (phase, riddle, image,       *)
(* streak, history), the answer screen of src/components/GameScreen.tsx,   *)
(* the generation pipeline handleStartGame with its three remote calls     *)
(* (services/geminiService, src/unnamed/part_000) and the history store    *)
(* over localStorage (services/storageService, src/unnamed/part_001).      *)
(*                                                                         *)
(* An optional value (null / undefined in the source) is the empty         *)
(* sequence None; a present value v is the one-element sequence Some(v).   *)
(* Text is a sequence of characters where the code looks into it (trim),   *)
(* and a string otherwise.  A question is represented by a number.         *)
(***************************************************************************)
EXTENDS Integers, Sequences, FiniteSets, Bags, TLC

VARIABLES
    status,         \* gameState.status                       App.tsx:13
    riddle,         \* gameState.riddle (None | Some)         App.tsx:14
    imageUrl,       \* gameState.imageUrl (None | Some)       App.tsx:15
    error,          \* gameState.error (None | Some)          types.ts:31
    customTopic,    \* customTopic                            App.tsx:21
    history,        \* history (in memory)                    App.tsx:24
    streak,         \* streak (in memory)                     App.tsx:25
    selected,       \* GameScreen selected                    GameScreen.tsx:15
    revealedHints,  \* GameScreen revealedHints               GameScreen.tsx:16
    showResult,     \* GameScreen showResult                  GameScreen.tsx:17
    isCorrect,      \* GameScreen isCorrect                   GameScreen.tsx:18
    ls_history,     \* localStorage['newsquest_solved_history'] (None | Some)
    ls_streak,      \* localStorage['newsquest_streak']         (None | Some)
    clock,          \* Date.now(), advanced by every saveToHistory call
    pipes,          \* bag of the handleStartGame calls suspended at an await
    answered,       \* observer: a selection took effect since the riddle was
                    \* stored and no RESET was dispatched since
    calls           \* observer: the last two calls made on the history store

vars == <<status, riddle, imageUrl, error, customTopic, history, streak,
          selected, revealedHints, showResult, isCorrect,
          ls_history, ls_streak, clock, pipes, answered, calls>>

sessionVars == <<status, riddle, imageUrl, error, customTopic, history, streak,
                 selected, revealedHints, showResult, isCorrect,
                 ls_streak, pipes, answered>>

(***************************************************************************)
(* Bounds of the model.                                                    *)
(***************************************************************************)
MaxPipelines == 2       \* handleStartGame calls suspended at the same time
MaxQuotaPipelines == 1  \* the same, under a storage that may refuse writes
MaxRacePipelines == 3   \* the same, with one riddle and a storage with room
MaxParsePipelines == 1
MaxCorruptPipelines == 1
MaxRecords == 2         \* saveToHistory calls on the store in one behaviour
MaxClock == 1           \* saveToHistory calls of a session in one behaviour
MaxStreak == 2          \* cap of the streak counter

(***************************************************************************)
(* Program constants.                                                      *)
(***************************************************************************)
MAX_ITEMS == 12

None == <<>>
Some(v) == <<v>>
Val(o) == o[1]

(***************************************************************************)
(* String.prototype.trim on a text given as a sequence of characters.      *)
(* WhiteSpace holds the 25 white space and line terminator characters of   *)
(* ECMAScript; a character that has no escape in a TLA+ string is named    *)
(* by its code point.                                                      *)
(***************************************************************************)
WhiteSpace ==
    { " ", "\t", "\n", "\r", "\f", "U+000B", "U+00A0", "U+1680",
      "U+2000", "U+2001", "U+2002", "U+2003", "U+2004", "U+2005", "U+2006",
      "U+2007", "U+2008", "U+2009", "U+200A",
      "U+2028", "U+2029", "U+202F", "U+205F", "U+3000", "U+FEFF" }

RECURSIVE trimStart(_)
trimStart(s) ==
    IF s # <<>> /\ Head(s) \in WhiteSpace THEN trimStart(Tail(s)) ELSE s

RECURSIVE trimEnd(_)
trimEnd(s) ==
    IF s # <<>> /\ s[Len(s)] \in WhiteSpace
    THEN trimEnd(SubSeq(s, 1, Len(s) - 1)) ELSE s

trim(s) == trimEnd(trimStart(s))

(***************************************************************************)
(* Inputs: what the user can type, what the remote service can answer.     *)
(***************************************************************************)
TopicTexts == { <<>>, <<" ">>, <<"U+000B">>, <<"c">> }
Headlines == { <<"c">> }

FourChoices == <<"a", "b", "c", "d">>
TwoHints == <<"h1", "h2">>

\* The JSON object the riddle model answers with (riddleResponseSchema).
Payload(q, a, p) ==
    [ image_prompt |-> p, riddle_question |-> q, choices |-> FourChoices,
      answerIndex |-> a, hints |-> TwoHints, fun_fact |-> "f" ]

\* A JSON object that does not conform to the schema: three choices, and
\* an answerIndex that points at none of them.
ThreeChoices == <<"a", "b", "c">>
Malformed(q, p) == [ Payload(q, 4, p) EXCEPT !.choices = ThreeChoices ]

\* A JSON object that does not conform to the schema: no fun_fact.
WithoutFact(q, a, p) ==
    [ k \in DOMAIN Payload(q, a, p) \ {"fun_fact"} |-> Payload(q, a, p)[k] ]

Payloads == { Payload(1, 0, "p1"), Payload(1, 2, "p2") }
QuotaPayloads == { Payload(1, 2, "p2") }
ParsePayloads ==
    { Payload(1, 2, "p2"), Malformed(2, "p3"), WithoutFact(2, 1, "p3") }

\* A response of ai.models.generateContent for text: it throws, or carries
\* response.text (absent, not JSON, or the JSON of a payload).
TextThrow == [ kind |-> "throw" ]
TextAbsent == [ kind |-> "absent" ]
TextGarbage == [ kind |-> "garbage" ]
TextOf(t) == [ kind |-> "text", text |-> t ]
TextJson(p) == [ kind |-> "json", data |-> p ]

FetchResponses == { TextThrow, TextAbsent } \cup { TextOf(h) : h \in Headlines }
RiddleResponses(payloads) ==
    { TextThrow, TextAbsent, TextGarbage } \cup { TextJson(p) : p \in payloads }

\* A response of the image model: it throws, has no candidate parts, or has
\* a sequence of parts; a part carries text or inlineData {data, mimeType?}.
TextPart == [ text |-> "t" ]
InlinePart(d, m) == [ inlineData |-> [ data |-> d, mimeType |-> m ] ]
EmptyInlinePart == [ inlineData |-> [ data |-> None, mimeType |-> Some("image/png") ] ]

ImgThrow == [ kind |-> "throw" ]
ImgNoParts == [ kind |-> "noparts" ]
ImgParts(ps) == [ kind |-> "parts", parts |-> ps ]

\* The image bytes the service paints for a prompt.
Painted(prompt) == Some("img:" \o prompt)

ImageResponses(prompt) ==
    { ImgThrow, ImgNoParts,
      ImgParts(<<TextPart>>),
      ImgParts(<<TextPart, InlinePart(Painted(prompt), None)>>),
      ImgParts(<<InlinePart(Some(""), Some("image/png"))>>),
      ImgParts(<<InlinePart(Painted(prompt), Some(""))>>),
      ImgParts(<<EmptyInlinePart,
                 InlinePart(Some(""), None),
                 InlinePart(Painted(prompt), Some("image/jpeg")),
                 InlinePart(Painted(prompt), Some("image/png"))>>) }

\* Whether an optional text is one an if or an || takes: present and not
\* the empty text.
truthy(o) == o # None /\ Val(o) # ""

(***************************************************************************)
(* services/geminiService: each call ends in [ok |-> TRUE, value |-> v]    *)
(* or in a thrown Error, [ok |-> FALSE, message |-> m].                    *)
(***************************************************************************)
Ok(v) == [ ok |-> TRUE, value |-> v ]
Throw(m) == [ ok |-> FALSE, message |-> m ]

fetchTrendingNews(resp) ==
    IF resp.kind = "text" /\ resp.text # <<>>
    THEN Ok(resp.text)
    ELSE Throw("Could not fetch trending news. Please try a manual topic.")

generateRiddleFromTopic(topic, resp) ==
    IF resp.kind = "json"
    THEN Ok([ k \in DOMAIN resp.data \cup {"news_topic"} |->
                IF k = "news_topic" THEN topic ELSE resp.data[k] ])
    ELSE Throw("Failed to generate riddle logic.")

\* The data URI `data:${mimeType};base64,${base64Data}`.
DataUri(mimeType, base64Data) == <<"data:", mimeType, ";base64,", base64Data>>

\* The scan of the parts that takes the last inline image, not the first.
RECURSIVE lastInline(_)
lastInline(parts) ==
    IF parts = <<>> THEN None
    ELSE IF "inlineData" \in DOMAIN parts[Len(parts)]
            /\ truthy(parts[Len(parts)].inlineData.data)
         THEN Some(parts[Len(parts)].inlineData)
         ELSE lastInline(SubSeq(parts, 1, Len(parts) - 1))

RECURSIVE firstInline(_)
firstInline(parts) ==
    IF parts = <<>> THEN None
    ELSE IF "inlineData" \in DOMAIN Head(parts)
            /\ truthy(Head(parts).inlineData.data)
         THEN Some(Head(parts).inlineData)
         ELSE firstInline(Tail(parts))

generateRiddleImage(resp) ==
    IF resp.kind = "parts" /\ firstInline(resp.parts) # None
    THEN LET inlineData == Val(firstInline(resp.parts))
             mimeType == IF truthy(inlineData.mimeType)
                         THEN Val(inlineData.mimeType) ELSE "image/png"
         IN  Ok(DataUri(mimeType, Val(inlineData.data)))
    ELSE Throw("Failed to generate the riddle image.")

(***************************************************************************)
(* Number.prototype.toString and parseInt(s, 10) on the streak counter.    *)
(* A number is an integer or NaN, which is no integer; isNaN tells them    *)
(* apart by their texts, an integer and NaN having no common one.          *)
(***************************************************************************)
NaN == "NaN"

isNaN(n) == ToString(n) = ToString(NaN)

Digits == <<"0", "1", "2", "3", "4", "5", "6", "7", "8", "9">>

RECURSIVE toDigits(_)
toDigits(n) ==
    IF n < 10 THEN <<Digits[n + 1]>>
    ELSE Append(toDigits(n \div 10), Digits[(n % 10) + 1])

toString(n) ==
    IF isNaN(n) THEN <<"N", "a", "N">>
    ELSE IF n < 0 THEN <<"-">> \o toDigits(-n)
    ELSE toDigits(n)

IsDigit(c) == \E d \in 1..10 : Digits[d] = c
DigitValue(c) == (CHOOSE d \in 1..10 : Digits[d] = c) - 1

RECURSIVE leadingDigits(_, _)
leadingDigits(s, acc) ==
    IF s # <<>> /\ IsDigit(Head(s))
    THEN leadingDigits(Tail(s), acc * 10 + DigitValue(Head(s)))
    ELSE acc

parseInt(s) ==
    LET t == trimStart(s)
        signed == t # <<>> /\ Head(t) \in { "+", "-" }
        sign == IF t # <<>> /\ Head(t) = "-" THEN -1 ELSE 1
        digits == IF signed THEN Tail(t) ELSE t
    IN  IF digits # <<>> /\ IsDigit(Head(digits))
        THEN sign * leadingDigits(digits, 0)
        ELSE NaN

(***************************************************************************)
(* services/storageService over localStorage.  A HistoryItem is a record   *)
(* over its own properties; the value of a property may be undefined,      *)
(* which is no text and no number.  A stored value is a text:              *)
(* [json |-> FALSE], which JSON.parse rejects; [json |-> TRUE, list |-> t],*)
(* the text of an array, where t[i] maps the keys written for item i to    *)
(* their values; or [json |-> TRUE, null |-> TRUE], the text null, which   *)
(* JSON.parse accepts and which is no array.  setItem throws               *)
(* (QuotaExceededError) when the list is longer than the capacity the      *)
(* storage has left, counted in entries.                                   *)
(***************************************************************************)
undefined == [ undefined |-> TRUE ]

\* v === undefined.  The values of the properties are numbers, texts and
\* data URIs; the test compares their texts, undefined having one that no
\* number, text or data URI has.
isUndefined(v) == ToString(v) = ToString(undefined)

\* o.k: reading a property the object does not have gives undefined.
prop(o, k) == IF k \in DOMAIN o THEN o[k] ELSE undefined

\* a === b on two values that are undefined or of one type.
strictEq(a, b) ==
    IF isUndefined(a) \/ isUndefined(b)
    THEN isUndefined(a) /\ isUndefined(b)
    ELSE a = b

ItemKeys ==
    { "id", "timestamp", "topic", "question", "answer", "fun_fact", "image_url" }

\* JSON.stringify leaves out a property whose value is undefined.
writtenKeys(item) == { k \in DOMAIN item : ~isUndefined(item[k]) }

\* JSON.stringify that also leaves out the image of every item.
stringify_noImage(h) ==
    [ json |-> TRUE,
      list |-> [ i \in DOMAIN h |->
                   [ k \in writtenKeys(h[i]) \ {"image_url"} |-> h[i][k] ] ] ]

stringify(h) ==
    [ json |-> TRUE,
      list |-> [ i \in DOMAIN h |-> [ k \in writtenKeys(h[i]) |-> h[i][k] ] ] ]

\* JSON.parse of the text of an array: each object has the properties the
\* text has for it, and no other.
parse(t) == [ i \in DOMAIN t |-> [ k \in DOMAIN t[i] |-> t[i][k] ] ]

JsonNull == [ json |-> TRUE, null |-> TRUE ]
Null == [ null |-> TRUE ]

\* Whether getHistory returns an array for the stored value.
isArray(stored) ==
    stored = None \/ ~Val(stored).json \/ "list" \in DOMAIN Val(stored)

getHistory(stored) ==
    IF stored = None THEN <<>>
    ELSE IF ~Val(stored).json THEN <<>>
    ELSE IF "list" \in DOMAIN Val(stored) THEN parse(Val(stored).list)
    ELSE Null

MysteryTopic == <<"Mystery Topic">>

\* Whether || takes its right side for a text: it is undefined or empty.
falsyText(t) == isUndefined(t) \/ t = <<>>

\* newItem that takes the first choice as the answer.
newItem_firstChoice(r, image, now) ==
    [ id |-> now,
      timestamp |-> now,
      topic |-> IF falsyText(prop(r, "news_topic")) THEN MysteryTopic
                ELSE r.news_topic,
      question |-> prop(r, "riddle_question"),
      answer |-> r.choices[1],
      fun_fact |-> prop(r, "fun_fact"),
      image_url |-> image ]

newItem(r, image, now) ==
    [ id |-> now,
      timestamp |-> now,
      topic |-> IF falsyText(prop(r, "news_topic")) THEN MysteryTopic
                ELSE r.news_topic,
      question |-> prop(r, "riddle_question"),
      answer |-> IF r.answerIndex + 1 \in DOMAIN r.choices
                 THEN r.choices[r.answerIndex + 1] ELSE undefined,
      fun_fact |-> prop(r, "fun_fact"),
      image_url |-> image ]

some(h, q) == \E i \in DOMAIN h : strictEq(prop(h[i], "question"), q)

\* The loop that drops the first item, not the last, after a failed write.
RECURSIVE persist_shifts(_, _, _)
persist_shifts(h, stored, capacity) ==
    IF Len(h) = 0
    THEN [ ret |-> h, ls |-> stored, wrote |-> FALSE, threw |-> FALSE,
           attempts |-> 0 ]
    ELSE IF Len(h) <= capacity
         THEN [ ret |-> h, ls |-> Some(stringify(h)), wrote |-> TRUE,
                threw |-> FALSE, attempts |-> 1 ]
         ELSE IF Len(h) > 1
              THEN LET rest == persist_shifts(Tail(h), stored, capacity)
                   IN  [ rest EXCEPT !.attempts = @ + 1 ]
              ELSE [ ret |-> h, ls |-> stored, wrote |-> FALSE,
                     threw |-> FALSE, attempts |-> 1 ]

\* The loop that drops the last two items after a failed write.
RECURSIVE persist_popsTwo(_, _, _)
persist_popsTwo(h, stored, capacity) ==
    IF Len(h) = 0
    THEN [ ret |-> h, ls |-> stored, wrote |-> FALSE, threw |-> FALSE,
           attempts |-> 0 ]
    ELSE IF Len(h) <= capacity
         THEN [ ret |-> h, ls |-> Some(stringify(h)), wrote |-> TRUE,
                threw |-> FALSE, attempts |-> 1 ]
         ELSE IF Len(h) > 1
              THEN LET rest == persist_popsTwo(SubSeq(h, 1, Len(h) - 2), stored,
                                               capacity)
                   IN  [ rest EXCEPT !.attempts = @ + 1 ]
              ELSE [ ret |-> h, ls |-> stored, wrote |-> FALSE,
                     threw |-> FALSE, attempts |-> 1 ]

\* The loop of saveToHistory: write, and on a failed write drop the last
\* item and write again, until one item is left.
RECURSIVE persist(_, _, _)
persist(h, stored, capacity) ==
    IF Len(h) = 0
    THEN [ ret |-> h, ls |-> stored, wrote |-> FALSE, threw |-> FALSE,
           attempts |-> 0 ]
    ELSE IF Len(h) <= capacity
         THEN [ ret |-> h, ls |-> Some(stringify(h)), wrote |-> TRUE,
                threw |-> FALSE, attempts |-> 1 ]
         ELSE IF Len(h) > 1
              THEN LET rest == persist(SubSeq(h, 1, Len(h) - 1), stored, capacity)
                   IN  [ rest EXCEPT !.attempts = @ + 1 ]
              ELSE [ ret |-> h, ls |-> stored, wrote |-> FALSE,
                     threw |-> FALSE, attempts |-> 1 ]

\* saveToHistory without the count limit.
saveToHistory_noLimit(stored, r, image, now, capacity) ==
    LET item == newItem(r, image, now)
        h0 == getHistory(stored)
        h1 == <<item>> \o h0
    IN  IF ~isArray(stored) THEN [ ret |-> <<>>, ls |-> stored, wrote |-> FALSE,
                                   threw |-> TRUE, attempts |-> 0 ]
        ELSE IF some(h0, item.question)
        THEN [ ret |-> h0, ls |-> stored, wrote |-> FALSE, threw |-> FALSE,
               attempts |-> 0 ]
        ELSE persist(h1, stored, capacity)

\* history.some on a value that is no array: a TypeError leaves
\* saveToHistory, nothing is returned and nothing is written.
typeError(stored) ==
    [ ret |-> <<>>, ls |-> stored, wrote |-> FALSE, threw |-> TRUE,
      attempts |-> 0 ]

\* saveToHistory without the duplicate check.
saveToHistory_noDedup(stored, r, image, now, capacity) ==
    LET item == newItem(r, image, now)
        h0 == getHistory(stored)
        h1 == <<item>> \o h0
        h2 == IF Len(h1) > MAX_ITEMS THEN SubSeq(h1, 1, MAX_ITEMS) ELSE h1
    IN  IF ~isArray(stored) THEN typeError(stored)
        ELSE persist(h2, stored, capacity)

\* saveToHistory that adds the new item at the end of the list.
saveToHistory_push(stored, r, image, now, capacity) ==
    LET item == newItem(r, image, now)
        h0 == getHistory(stored)
        h1 == h0 \o <<item>>
        h2 == IF Len(h1) > MAX_ITEMS THEN SubSeq(h1, 1, MAX_ITEMS) ELSE h1
    IN  IF ~isArray(stored) THEN typeError(stored)
        ELSE IF some(h0, item.question)
        THEN [ ret |-> h0, ls |-> stored, wrote |-> FALSE, threw |-> FALSE,
               attempts |-> 0 ]
        ELSE persist(h2, stored, capacity)

\* saveToHistory that lets the failure of the last write escape.
saveToHistory_throws(stored, r, image, now, capacity) ==
    LET item == newItem(r, image, now)
        h0 == getHistory(stored)
        h1 == <<item>> \o h0
        h2 == IF Len(h1) > MAX_ITEMS THEN SubSeq(h1, 1, MAX_ITEMS) ELSE h1
        saved == persist(h2, stored, capacity)
    IN  IF ~isArray(stored) THEN typeError(stored)
        ELSE IF some(h0, item.question)
        THEN [ ret |-> h0, ls |-> stored, wrote |-> FALSE, threw |-> FALSE,
               attempts |-> 0 ]
        ELSE IF saved.wrote THEN saved ELSE typeError(stored)

saveToHistory(stored, r, image, now, capacity) ==
    LET item == newItem(r, image, now)
        h0 == getHistory(stored)
        h1 == <<item>> \o h0
        h2 == IF Len(h1) > MAX_ITEMS THEN SubSeq(h1, 1, MAX_ITEMS) ELSE h1
    IN  IF ~isArray(stored) THEN typeError(stored)
        ELSE IF some(h0, item.question)
        THEN [ ret |-> h0, ls |-> stored, wrote |-> FALSE, threw |-> FALSE,
               attempts |-> 0 ]
        ELSE persist(h2, stored, capacity)

\* clearHistory without removeItem.
clearHistory_noRemove == [ ret |-> <<>>, ls |-> ls_history ]

clearHistory == [ ret |-> <<>>, ls |-> None ]

\* A store left by earlier sessions: n entries, newest first, with
\* questions no riddle of this session asks.
Stock(n) ==
    [ i \in 1..n |->
        [ id |-> 0 - i, timestamp |-> 0 - i, topic |-> <<"o">>,
          question |-> 100 + i, answer |-> "a", fun_fact |-> "f",
          image_url |-> DataUri("image/png", "img:old") ] ]

Capacities == { 0, 1, MAX_ITEMS }

(***************************************************************************)
(* App.tsx dispatch: one definition per case of the switch.  Each sets     *)
(* the five fields a dispatch can touch: status, riddle, imageUrl, error   *)
(* of gameState, and customTopic.  (gameState.selectedAnswer,              *)
(* hintsRevealed and score are never written to anything but their         *)
(* initial value; the difficulty only selects the instruction text of the  *)
(* riddle request.)                                                        *)
(***************************************************************************)
START_SEARCH ==
    /\ status' = "searching"
    /\ error' = None
    /\ UNCHANGED <<riddle, imageUrl, customTopic>>

START_GEN_RIDDLE ==
    /\ status' = "generating_riddle"
    /\ error' = None
    /\ UNCHANGED <<riddle, imageUrl, customTopic>>

RIDDLE_READY(payload) ==
    /\ status' = "generating_image"
    /\ riddle' = Some(payload)
    /\ UNCHANGED <<imageUrl, error, customTopic>>

IMAGE_READY(payload) ==
    /\ status' = "playing"
    /\ imageUrl' = Some(payload)
    /\ UNCHANGED <<riddle, error, customTopic>>

\* RESET that forgets to clear the riddle.
RESET_keepRiddle ==
    /\ status' = "idle"
    /\ imageUrl' = None
    /\ error' = None
    /\ customTopic' = <<>>
    /\ UNCHANGED riddle

RESET ==
    /\ status' = "idle"
    /\ riddle' = None
    /\ imageUrl' = None
    /\ error' = None
    /\ customTopic' = <<>>

\* A catch block that drops the failure instead of dispatching it.
ERROR_swallowed(payload) ==
    UNCHANGED <<status, error, riddle, imageUrl, customTopic>>

ERROR(payload) ==
    /\ status' = "error"
    /\ error' = Some(payload)
    /\ UNCHANGED <<riddle, imageUrl, customTopic>>

OPEN_HISTORY ==
    /\ status' = "history"
    /\ UNCHANGED <<riddle, imageUrl, error, customTopic>>

CLOSE_HISTORY ==
    /\ status' = "idle"
    /\ UNCHANGED <<riddle, imageUrl, error, customTopic>>

\* A catch that shows its fallback text whatever was thrown.
catchMessage_generic(message) == "An unexpected error occurred."

\* The payload of the ERROR dispatched by the catch of handleStartGame.
catchMessage(message) ==
    IF message # "" THEN message ELSE "An unexpected error occurred."

(***************************************************************************)
(* GameScreen is rendered under the condition of App.tsx:306; while it is  *)
(* not rendered its local state is gone, and the next mount starts from    *)
(* the useState initial values.                                            *)
(***************************************************************************)
Mounted(st, r, img) ==
    st \in {"playing", "solved", "failed"} /\ r # None /\ img # None

GameScreenRendered ==
    IF Mounted(status', riddle', imageUrl')
    THEN UNCHANGED <<selected, revealedHints, showResult, isCorrect>>
    ELSE /\ selected' = None
         /\ revealedHints' = 0
         /\ showResult' = FALSE
         /\ isCorrect' = FALSE

InFlight == BagCardinality(pipes)

Suspend(p) == pipes (+) SetToBag({p})
Resume(p) == pipes (-) SetToBag({p})

(***************************************************************************)
(* handleStartGame.  A call runs to its first await and is then suspended  *)
(* in pipes; the completion of the awaited remote call resumes it.  No     *)
(* step of it looks at the session it resumes in.                          *)
(***************************************************************************)
\* A click on one of the four category buttons of the idle menu.
StartTrending(limit) ==
    /\ status = "idle"
    /\ InFlight < limit
    /\ START_SEARCH
    /\ pipes' = Suspend([ pc |-> "fetchTrendingNews" ])
    /\ GameScreenRendered
    /\ UNCHANGED <<history, streak, ls_history, ls_streak, clock, answered, calls>>

\* handleStartGame(false) without the check of the topic.
StartManual_noTrim(limit) ==
    /\ status = "idle"
    /\ InFlight < limit
    /\ START_GEN_RIDDLE
    /\ pipes' = Suspend([ pc |-> "generateRiddleFromTopic",
                          topic |-> customTopic ])
    /\ GameScreenRendered
    /\ UNCHANGED <<history, streak, ls_history, ls_streak, clock,
                   answered, calls>>

\* The Generate Riddle button, or Enter in the topic input.
StartManual(limit) ==
    /\ status = "idle"
    /\ IF trim(customTopic) = <<>>
       THEN UNCHANGED vars
       ELSE /\ InFlight < limit
            /\ START_GEN_RIDDLE
            /\ pipes' = Suspend([ pc |-> "generateRiddleFromTopic",
                                  topic |-> customTopic ])
            /\ GameScreenRendered
            /\ UNCHANGED <<history, streak, ls_history, ls_streak, clock,
                           answered, calls>>

\* await fetchTrendingNews(category) settles.
TopicSettled(p, resp) ==
    /\ p \in BagToSet(pipes)
    /\ p.pc = "fetchTrendingNews"
    /\ LET r == fetchTrendingNews(resp)
       IN  IF r.ok
           THEN /\ START_GEN_RIDDLE
                /\ pipes' = Resume(p) (+) SetToBag({[ pc |-> "generateRiddleFromTopic",
                                                      topic |-> r.value ]})
           ELSE /\ ERROR(catchMessage(r.message))
                /\ pipes' = Resume(p)
    /\ GameScreenRendered
    /\ UNCHANGED <<history, streak, ls_history, ls_streak, clock, answered, calls>>

\* await generateRiddleFromTopic(topic, difficulty) settles.
RiddleSettled(p, resp) ==
    /\ p \in BagToSet(pipes)
    /\ p.pc = "generateRiddleFromTopic"
    /\ LET r == generateRiddleFromTopic(p.topic, resp)
       IN  IF r.ok
           THEN /\ RIDDLE_READY(r.value)
                /\ pipes' = Resume(p) (+) SetToBag({[ pc |-> "generateRiddleImage",
                                                      riddleData |-> r.value ]})
                /\ answered' = FALSE
           ELSE /\ ERROR(catchMessage(r.message))
                /\ pipes' = Resume(p)
                /\ UNCHANGED answered
    /\ GameScreenRendered
    /\ UNCHANGED <<history, streak, ls_history, ls_streak, clock, calls>>

\* await generateRiddleImage(riddleData.image_prompt) settles.
ImageSettled(p, resp) ==
    /\ p \in BagToSet(pipes)
    /\ p.pc = "generateRiddleImage"
    /\ LET r == generateRiddleImage(resp)
       IN  IF r.ok
           THEN IMAGE_READY(r.value)
           ELSE ERROR(catchMessage(r.message))
    /\ pipes' = Resume(p)
    /\ GameScreenRendered
    /\ UNCHANGED <<history, streak, ls_history, ls_streak, clock, answered, calls>>

(***************************************************************************)
(* User intents.                                                           *)
(***************************************************************************)
\* onChange of the topic input of the idle menu.
SetCustomTopic(t) ==
    /\ status = "idle"
    /\ customTopic' = t
    /\ UNCHANGED <<status, riddle, imageUrl, error, history, streak, selected,
                   revealedHints, showResult, isCorrect, ls_history, ls_streak,
                   clock, pipes, answered, calls>>

\* A reset that also starts the streak over.
Reset_clearsStreak ==
    /\ status # "crashed"
    /\ RESET
    /\ GameScreenRendered
    /\ answered' = FALSE
    /\ streak' = 0
    /\ ls_streak' = Some(toString(0))
    /\ UNCHANGED <<history, ls_history, clock, pipes, calls>>

\* The header logo (any phase), Try Again of the error view, and onReset
\* of GameScreen all dispatch RESET.
Reset ==
    /\ status # "crashed"
    /\ RESET
    /\ GameScreenRendered
    /\ answered' = FALSE
    /\ UNCHANGED <<history, streak, ls_history, ls_streak, clock, pipes, calls>>

OpenHistory ==
    /\ status = "idle"
    /\ Len(history) > 0
    /\ OPEN_HISTORY
    /\ GameScreenRendered
    /\ UNCHANGED <<history, streak, ls_history, ls_streak, clock, pipes,
                   answered, calls>>

CloseHistory ==
    /\ status = "history"
    /\ CLOSE_HISTORY
    /\ GameScreenRendered
    /\ UNCHANGED <<history, streak, ls_history, ls_streak, clock, pipes,
                   answered, calls>>

\* Clear of HistoryScreen (confirmed): handleClearHistory.
handleClearHistory ==
    /\ status = "history"
    /\ Len(history) > 0
    /\ ls_history' = clearHistory.ls
    /\ history' = clearHistory.ret
    /\ UNCHANGED <<status, riddle, imageUrl, error, customTopic, streak, selected,
                   revealedHints, showResult, isCorrect, ls_streak, clock, pipes,
                   answered, calls>>

\* The effect without the read of the streak.
readStorage_keep(savedStreak, current) == current

\* The effect of App.tsx:28, as it runs when isMuted changes.
readStorage(savedStreak, current) ==
    IF savedStreak # None /\ Val(savedStreak) # <<>>
    THEN parseInt(Val(savedStreak)) ELSE current

toggleMute ==
    /\ status # "crashed"
    /\ history' = getHistory(ls_history)
    /\ streak' = readStorage(ls_streak, streak)
    /\ UNCHANGED <<status, riddle, imageUrl, error, customTopic, selected,
                   revealedHints, showResult, isCorrect, ls_history, ls_streak,
                   clock, pipes, answered, calls>>

\* updateStreak that leaves the counter alone on a wrong answer.
newStreak_keep(increment, current) ==
    IF increment THEN (IF isNaN(current) THEN NaN ELSE current + 1) ELSE current

\* updateStreak: the new value of the counter.
newStreak(increment, current) ==
    IF increment THEN (IF isNaN(current) THEN NaN ELSE current + 1) ELSE 0

\* A click on choice button index of GameScreen: handleSelect, which calls
\* handleGameComplete.  capacity: the entries the storage can still hold;
\* streakWriteOk: whether setItem of the streak succeeds.  When it throws,
\* handleGameComplete ends there: the state updates already queued are
\* applied, saveToHistory is not called.
handleSelect(index, capacity, streakWriteOk) ==
    /\ Mounted(status, riddle, imageUrl)
    /\ ~showResult
    /\ index \in 0..(Len(Val(riddle).choices) - 1)
    /\ LET correct == index = Val(riddle).answerIndex
           saved == saveToHistory(ls_history, Val(riddle), Val(imageUrl),
                                  clock + 1, capacity)
       IN  /\ (correct /\ ~isNaN(streak)) => streak < MaxStreak
           /\ selected' = Some(index)
           /\ isCorrect' = correct
           /\ showResult' = TRUE
           /\ streak' = newStreak(correct, streak)
           /\ IF ~streakWriteOk
              THEN UNCHANGED <<ls_streak, history, ls_history, clock>>
              ELSE /\ ls_streak' = Some(toString(newStreak(correct, streak)))
                   /\ IF correct
                      THEN /\ clock < MaxClock
                           /\ history' = IF saved.threw THEN history
                                          ELSE saved.ret
                           /\ ls_history' = saved.ls
                           /\ clock' = clock + 1
                      ELSE UNCHANGED <<history, ls_history, clock>>
    /\ answered' = TRUE
    /\ UNCHANGED <<status, riddle, imageUrl, error, customTopic, revealedHints,
                   pipes, calls>>

\* revealHint without the cap, behind buttons that stay enabled.
revealHint_noCap ==
    /\ Mounted(status, riddle, imageUrl)
    /\ ~showResult
    /\ revealedHints' = revealedHints + 1
    /\ UNCHANGED <<status, riddle, imageUrl, error, customTopic, history, streak,
                   selected, showResult, isCorrect, ls_history, ls_streak, clock,
                   pipes, answered, calls>>

\* A click on a hint button that is not disabled: revealHint.
revealHint ==
    /\ Mounted(status, riddle, imageUrl)
    /\ ~showResult
    /\ revealedHints < Len(Val(riddle).hints)
    /\ revealedHints' = revealedHints + 1
    /\ UNCHANGED <<status, riddle, imageUrl, error, customTopic, history, streak,
                   selected, showResult, isCorrect, ls_history, ls_streak, clock,
                   pipes, answered, calls>>

(***************************************************************************)
(* The session after the first render and its effect (App.tsx:12-34), on   *)
(* a storage left by earlier sessions.  On a stored history that           *)
(* JSON.parse accepts and that is no array, the render that follows the    *)
(* effect throws at history.length (App.tsx:144): the tree is unmounted,   *)
(* its state is gone and no handler can run (status "crashed").            *)
(***************************************************************************)
InitStorage ==
    { [ history |-> None, streak |-> None ],
      [ history |-> Some(stringify(Stock(MAX_ITEMS))), streak |-> Some(toString(1)) ] }

InitFrom(storages) ==
    /\ riddle = None
    /\ imageUrl = None
    /\ error = None
    /\ customTopic = <<>>
    /\ selected = None
    /\ revealedHints = 0
    /\ showResult = FALSE
    /\ isCorrect = FALSE
    /\ \E ls \in storages : ls_history = ls.history /\ ls_streak = ls.streak
    /\ IF isArray(ls_history)
       THEN /\ status = "idle"
            /\ history = getHistory(ls_history)
            /\ streak = readStorage(ls_streak, 0)
       ELSE /\ status = "crashed"
            /\ history = <<>>
            /\ streak = 0
    /\ clock = 0
    /\ pipes = EmptyBag
    /\ answered = FALSE
    /\ calls = <<>>

Init == InitFrom(InitStorage)

\* The completion of the remote call a suspended handleStartGame awaits.
Settle(payloads) ==
    \E p \in BagToSet(pipes) :
        \/ \E resp \in FetchResponses : TopicSettled(p, resp)
        \/ \E resp \in RiddleResponses(payloads) : RiddleSettled(p, resp)
        \/ /\ p.pc = "generateRiddleImage"
           /\ \E resp \in ImageResponses(p.riddleData.image_prompt) :
                ImageSettled(p, resp)

\* The user intents that dispatch no RESET.
Intents(limit, capacities, writeOks) ==
    \/ StartTrending(limit)
    \/ StartManual(limit)
    \/ \E t \in TopicTexts : SetCustomTopic(t)
    \/ OpenHistory
    \/ CloseHistory
    \/ handleClearHistory
    \/ toggleMute
    \/ \E index \in 0..3, capacity \in capacities, streakWriteOk \in writeOks :
         handleSelect(index, capacity, streakWriteOk)
    \/ revealHint

\* One step of the session: a user intent or the completion of a remote
\* call.  limit bounds the suspended handleStartGame calls; payloads are
\* the riddles the service may answer with; capacities and writeOks are
\* what the storage may answer to a write.
Step(limit, payloads, capacities, writeOks) ==
    \/ Intents(limit, capacities, writeOks)
    \/ Settle(payloads)
    \/ Reset

\* The session on a storage that has room for every write.
Next == Step(MaxPipelines, Payloads, {MAX_ITEMS}, {TRUE})

Spec == Init /\ [][Next]_vars

\* The session on a storage that may refuse a write (QuotaExceededError).
NextQuota == Step(MaxQuotaPipelines, QuotaPayloads, Capacities, BOOLEAN)

SpecQuota == Init /\ [][NextQuota]_vars

\* The session with one riddle, a storage that has room, and more
\* handleStartGame calls suspended at the same time.
NextRace == Step(MaxRacePipelines, QuotaPayloads, {MAX_ITEMS}, {TRUE})

SpecRace == Init /\ [][NextRace]_vars

\* The session on a storage whose values no session wrote: a history text
\* that does not parse, with a streak text that is no number or that is a
\* negative number; or the history text null.
CorruptStorage ==
    { [ history |-> Some([ json |-> FALSE ]), streak |-> Some(<<"x">>) ],
      [ history |-> Some([ json |-> FALSE ]), streak |-> Some(<<"-", "1">>) ],
      [ history |-> Some(JsonNull), streak |-> None ] }

InitCorrupt == InitFrom(CorruptStorage)

NextCorrupt == Step(MaxCorruptPipelines, QuotaPayloads, {MAX_ITEMS}, {TRUE})

SpecCorrupt == InitCorrupt /\ [][NextCorrupt]_vars

\* The session with a service that may answer with a JSON object that does
\* not conform to the schema.
NextParse == Step(MaxParsePipelines, ParsePayloads, {MAX_ITEMS}, {TRUE})

SpecParse == Init /\ [][NextParse]_vars

\* The session of a user who dispatches no RESET, with remote calls that
\* all complete: a suspended handleStartGame is eventually resumed, by the
\* value or by the rejection of the promise it awaits.
NextLive ==
    \/ Intents(MaxPipelines, {MAX_ITEMS}, {TRUE})
    \/ Settle(Payloads)

SpecLive == Init /\ [][NextLive]_vars /\ WF_vars(Settle(Payloads))

(***************************************************************************)
(* The history store on its own: list, record and clear called in any      *)
(* order on a storage left by earlier sessions.  calls keeps the last two  *)
(* calls: what was stored before (as getHistory reads it), the item a      *)
(* record call built, what the call returned, whether a setItem            *)
(* succeeded, and what is stored after.                                    *)
(***************************************************************************)
StoreRiddles ==
    { generateRiddleFromTopic(<<"c">>, TextJson(p)).value :
        p \in { Payload(1, 0, "p1"), Payload(1, 2, "p2"), Payload(2, 1, "p3"),
                Malformed(2, "p3"), WithoutFact(2, 1, "p3") } }

StoreImages ==
    { generateRiddleImage(ImgParts(<<InlinePart(Painted(p), None)>>)).value :
        p \in { "p1", "p2" } }

StoreCapacities == 0..(MAX_ITEMS + 1)

StoreInit ==
    { None, Some([ json |-> FALSE ]) }
        \cup { Some(stringify(Stock(n))) : n \in {1, MAX_ITEMS - 1, MAX_ITEMS} }

Logged(c) == IF calls = <<>> THEN <<c>> ELSE <<calls[Len(calls)], c>>

ListCall ==
    /\ calls' = Logged([ op |-> "list", question |-> 0, item |-> None,
                         before |-> getHistory(ls_history),
                         ret |-> getHistory(ls_history),
                         wrote |-> FALSE, threw |-> FALSE,
                         after |-> ls_history ])
    /\ UNCHANGED <<ls_history, clock>>
    /\ UNCHANGED sessionVars

RecordCall(r, image, capacity) ==
    /\ clock < MaxRecords
    /\ LET saved == saveToHistory(ls_history, r, image, clock + 1, capacity)
       IN  /\ ls_history' = saved.ls
           /\ calls' = Logged([ op |-> "record", question |-> r.riddle_question,
                                item |-> Some(newItem(r, image, clock + 1)),
                                before |-> getHistory(ls_history),
                                ret |-> saved.ret,
                                wrote |-> saved.wrote, threw |-> saved.threw,
                                after |-> saved.ls ])
    /\ clock' = clock + 1
    /\ UNCHANGED sessionVars

ClearCall ==
    /\ ls_history' = clearHistory.ls
    /\ calls' = Logged([ op |-> "clear", question |-> 0, item |-> None,
                         before |-> getHistory(ls_history),
                         ret |-> clearHistory.ret,
                         wrote |-> FALSE, threw |-> FALSE,
                         after |-> clearHistory.ls ])
    /\ UNCHANGED clock
    /\ UNCHANGED sessionVars

InitStoreFrom(stores) ==
    /\ status = "idle"
    /\ riddle = None
    /\ imageUrl = None
    /\ error = None
    /\ customTopic = <<>>
    /\ selected = None
    /\ revealedHints = 0
    /\ showResult = FALSE
    /\ isCorrect = FALSE
    /\ ls_history \in stores
    /\ ls_streak = None
    /\ history = <<>>
    /\ streak = 0
    /\ clock = 0
    /\ pipes = EmptyBag
    /\ answered = FALSE
    /\ calls = <<>>

InitStore == InitStoreFrom(StoreInit)

NextStore ==
    \/ ListCall
    \/ \E r \in StoreRiddles, image \in StoreImages, capacity \in StoreCapacities :
         RecordCall(r, image, capacity)
    \/ ClearCall

SpecStore == InitStore /\ [][NextStore]_vars

\* The history store on a storage whose value may also be a text that
\* JSON.parse accepts and that is no array.
\* The text of a list whose entry has neither topic, answer, fun_fact nor
\* image: a text no saveToHistory wrote.
SparseText ==
    [ json |-> TRUE,
      list |-> <<[ id |-> 0 - 1, timestamp |-> 0 - 1, question |-> 101 ]>> ]

StoreInitAny ==
    { None, Some([ json |-> FALSE ]), Some(JsonNull), Some(stringify(Stock(2))),
      Some(SparseText) }

InitStoreAny == InitStoreFrom(StoreInitAny)

SpecStoreAny == InitStoreAny /\ [][NextStore]_vars

(***************************************************************************)
(* Claims.                                                                 *)
(***************************************************************************)
\* A step in which an awaited remote call settles: a suspended call is
\* resumed (it moves on or ends), none is added.
Settles == pipes' # pipes /\ BagCardinality(pipes') <= BagCardinality(pipes)

\* A step in which a click on a choice button takes effect.
SelectsAnswer == Mounted(status, riddle, imageUrl) /\ ~showResult /\ showResult'

\* C1: while the session is idle, the settling of a remote call of an
\* abandoned pipeline changes neither the phase, the riddle, the image nor
\* the error message.
C1_StaleResponseNotApplied ==
    [][ (status = "idle" /\ Settles)
          => (status' = status /\ riddle' = riddle
              /\ imageUrl' = imageUrl /\ error' = error) ]_vars

\* C2: at most one generation pipeline is outstanding in every reachable
\* state.
C2_AtMostOnePipeline == BagCardinality(pipes) <= 1

\* C3: selecting the choice at the riddle's answerIndex ends in the solved
\* outcome with the streak raised by exactly 1 and the riddle's question in
\* the history.
C3_CorrectAnswerSolves ==
    [][ (SelectsAnswer /\ selected' = Some(Val(riddle).answerIndex))
          => (/\ isCorrect'
              /\ streak' = streak + 1
              /\ some(history', Val(riddle).riddle_question)) ]_vars

\* C4 as claimed: selecting another choice ends in the failed outcome, sets
\* the streak in memory and the persisted streak to 0, and leaves the
\* history in memory and persisted unchanged.
C4_WrongAnswerPersistsZero ==
    [][ (SelectsAnswer /\ selected' # Some(Val(riddle).answerIndex))
          => (/\ ~isCorrect'
              /\ streak' = 0
              /\ ls_streak' = Some(toString(0))
              /\ history' = history
              /\ ls_history' = ls_history) ]_vars

\* A step of handleSelect on a storage that accepts (accepted TRUE) or
\* refuses (accepted FALSE) the write of the streak.
SelectsOn(accepted) ==
    \E index \in 0..3, capacity \in Capacities :
        handleSelect(index, capacity, accepted)

\* C4 as amended: selecting another choice ends in the failed outcome, sets
\* the streak in memory to 0 and leaves the history in memory and persisted
\* unchanged; the persisted streak is set to 0 when the storage accepts the
\* write, and keeps its value when the storage refuses it.
C4_WrongAnswerFails ==
    [][ (SelectsAnswer /\ selected' # Some(Val(riddle).answerIndex))
          => (/\ ~isCorrect'
              /\ selected' # None
              /\ streak' = 0
              /\ history' = history
              /\ ls_history' = ls_history
              /\ SelectsOn(TRUE) \/ SelectsOn(FALSE)
              /\ SelectsOn(TRUE) => ls_streak' = Some(toString(0))
              /\ SelectsOn(FALSE) => ls_streak' = ls_streak) ]_vars

\* C4 witness: with a streak of 1 persisted by an earlier session (the one
\* that left the collection), a wrong choice is shown, the streak in
\* memory is 0 and the storage, which accepted the write, holds 0.
C4_Witness ==
    /\ showResult /\ ~isCorrect /\ selected # None
    /\ clock = 0 /\ Len(history) = MAX_ITEMS
    /\ streak = 0
    /\ ls_streak = Some(toString(0))

\* C5: once a selection has taken effect for the riddle the session holds,
\* no further selection takes effect until a reset.
C5_OneSelectionPerRiddle == [][ ~(answered /\ SelectsAnswer) ]_vars

\* C6: a reset, in whatever phase, leaves the session idle with riddle,
\* image, selected choice and error message absent and no hint revealed.
C6_ResetClears ==
    [][ Reset => (/\ status' = "idle"
                  /\ riddle' = None
                  /\ imageUrl' = None
                  /\ selected' = None
                  /\ error' = None
                  /\ revealedHints' = 0
                  /\ ~showResult') ]_vars

\* C6 witness: the session is idle and cleared after a round that was
\* solved and recorded, which only a reset leaves.
C6_Witness ==
    /\ status = "idle" /\ clock > 0
    /\ riddle = None /\ imageUrl = None /\ selected = None /\ error = None
    /\ revealedHints = 0

\* C7: a reset changes neither the streak nor the history, in memory or
\* persisted.
C7_ResetKeepsStreakAndHistory ==
    [][ Reset => UNCHANGED <<streak, ls_streak, history, ls_history>> ]_vars

\* C7 witness: the session is idle again after a solved round, with the
\* raised streak and the recorded entry still in memory and persisted.
C7_Witness ==
    /\ status = "idle" /\ clock > 0
    /\ streak > 0 /\ ls_streak = Some(toString(streak))
    /\ some(history, 1) /\ some(getHistory(ls_history), 1)

\* C8: in phase error the session holds no riddle and no image.
C8_ErrorKeepsNoPartialState ==
    status = "error" => (riddle = None /\ imageUrl = None)

\* C9: whichever of the three remote calls fails, the session moves to
\* phase error with the message of the failure; and a step of the user out
\* of phase error is a reset, which leads to idle.
C9_FailuresReachError ==
    [][ /\ \A p \in BagToSet(pipes) :
             /\ \A resp \in FetchResponses :
                  (TopicSettled(p, resp) /\ ~fetchTrendingNews(resp).ok)
                    => (status' = "error"
                        /\ error' = Some(fetchTrendingNews(resp).message))
             /\ \A resp \in RiddleResponses(Payloads) :
                  (RiddleSettled(p, resp)
                     /\ ~generateRiddleFromTopic(p.topic, resp).ok)
                    => (status' = "error"
                        /\ error' = Some(generateRiddleFromTopic(p.topic, resp).message))
             /\ p.pc = "generateRiddleImage" =>
                  \A resp \in ImageResponses(p.riddleData.image_prompt) :
                    (ImageSettled(p, resp) /\ ~generateRiddleImage(resp).ok)
                      => (status' = "error"
                          /\ error' = Some(generateRiddleImage(resp).message))
        /\ (status = "error" /\ pipes' = pipes /\ status' # "error")
             => (Reset /\ status' = "idle") ]_vars

\* C9 witness: the session is in phase error with the message of the
\* failed image generation.
C9_Witness ==
    /\ status = "error"
    /\ error = Some("Failed to generate the riddle image.")

\* The last two calls on the store, when both are record calls with the
\* same question.
RecordedTwice ==
    /\ Len(calls) = 2
    /\ calls[1].op = "record" /\ calls[2].op = "record"
    /\ calls[1].question = calls[2].question

\* Two entries are the same: they have the same properties, with the same
\* values.
SameEntry(a, b) ==
    DOMAIN a = DOMAIN b /\ \A k \in DOMAIN a : strictEq(a[k], b[k])

\* Two lists are the same: they have the same entries in the same order.
SameList(a, b) ==
    Len(a) = Len(b) /\ \A i \in DOMAIN a : SameEntry(a[i], b[i])

Entries(h, q) == { i \in DOMAIN h : strictEq(prop(h[i], "question"), q) }
Entry(h, q) == h[CHOOSE i \in DOMAIN h : strictEq(prop(h[i], "question"), q)]

C10_RecordIdempotentOnQuestion ==
    RecordedTwice =>
        LET q == calls[2].question
        IN  /\ Cardinality(Entries(calls[1].ret, q)) = 1
            /\ Cardinality(Entries(calls[2].ret, q)) = 1
            /\ (calls[1].wrote \/ some(calls[1].before, q))
                 => (/\ SameList(calls[2].ret, calls[2].before)
                     /\ SameList(calls[2].ret, getHistory(calls[1].after))
                     /\ SameEntry(Entry(calls[2].ret, q), Entry(calls[1].ret, q))
                     /\ ~calls[2].wrote
                     /\ calls[2].after = calls[1].after)

\* C10 witness: two record calls with the same question, the first of
\* which wrote a new entry in front of older ones and the second of which
\* came with another answer and another image.
C10_Witness ==
    /\ RecordedTwice
    /\ calls[1].wrote
    /\ ~some(calls[1].before, calls[2].question)
    /\ Len(calls[2].ret) > 1
    /\ ~strictEq(Val(calls[2].item).answer, Val(calls[1].item).answer)
    /\ Val(calls[2].item).image_url # Val(calls[1].item).image_url
    /\ SameEntry(calls[2].ret[1], Val(calls[1].item))

\* The last call on the store, when it is a record call.
Recorded == calls # <<>> /\ calls[Len(calls)].op = "record"
LastCall == calls[Len(calls)]

\* C11: the list the store holds, and the list every list and record call
\* returned, has at most MAX_ITEMS (12) entries, whether the writes
\* succeeded or failed.
C11_AtMostTwelveEntries ==
    /\ Len(getHistory(ls_history)) <= MAX_ITEMS
    /\ \A i \in DOMAIN calls :
          calls[i].op \in {"list", "record"} => Len(calls[i].ret) <= MAX_ITEMS

\* C11 witness: a record call with a new question on a store that held 12
\* entries wrote, and returned, 12 entries with the new one in front.
C11_Witness ==
    /\ Recorded
    /\ Len(LastCall.before) = MAX_ITEMS
    /\ ~some(LastCall.before, LastCall.question)
    /\ LastCall.wrote
    /\ Len(LastCall.ret) = MAX_ITEMS
    /\ SameEntry(LastCall.ret[1], Val(LastCall.item))
    /\ SameList(getHistory(ls_history), LastCall.ret)

NoTwoShareQuestion(h) ==
    \A i, j \in DOMAIN h :
        strictEq(prop(h[i], "question"), prop(h[j], "question")) => i = j

\* C12: no two entries of the persisted list, nor of a list a record call
\* returned, have the same question.
C12_NoDuplicateQuestions ==
    /\ NoTwoShareQuestion(getHistory(ls_history))
    /\ \A i \in DOMAIN calls :
          calls[i].op = "record" => NoTwoShareQuestion(calls[i].ret)

\* C12 witness: a record call whose question was already stored, among
\* other entries, returned the stored list and the store still holds it.
C12_Witness ==
    /\ Recorded
    /\ some(LastCall.before, LastCall.question)
    /\ Len(LastCall.ret) > 1
    /\ SameList(LastCall.ret, LastCall.before)
    /\ SameList(getHistory(ls_history), LastCall.ret)

\* C13: on every store, for every k, a record call with a new question on
\* a storage that refuses every list longer than k entries does not throw
\* and returns a list of at most k entries.
C13_EvictionUnderQuota ==
    \A r \in StoreRiddles, image \in StoreImages, k \in StoreCapacities :
        (isArray(ls_history) /\ ~some(getHistory(ls_history), r.riddle_question))
            => LET saved == saveToHistory(ls_history, r, image, clock + 1, k)
               IN  ~saved.threw /\ Len(saved.ret) <= k

\* A record call that ended with a successful write, or that found its
\* question stored and returned at once.
WroteOrDuplicate(c) ==
    c.op = "record" /\ ~c.threw /\ (c.wrote \/ some(c.before, c.question))

\* C14: the list such a record call returned is, entry by entry and in the
\* same order, the list getHistory reads from what is stored after it, and
\* the list a list call that follows it returns.
C14_ReturnedListIsStoredList ==
    /\ \A i \in DOMAIN calls :
          WroteOrDuplicate(calls[i])
              => SameList(calls[i].ret, getHistory(calls[i].after))
    /\ (Len(calls) = 2 /\ WroteOrDuplicate(calls[1]) /\ calls[2].op = "list")
          => SameList(calls[2].ret, calls[1].ret)

\* C15: Clear of the collection, whatever is stored, leaves nothing
\* persisted, so that getHistory returns the empty list, and sets the
\* history in memory to the empty list clearHistory returned.
C15_ClearErasesAll ==
    [][ handleClearHistory => (/\ ls_history' = None
                               /\ getHistory(ls_history') = <<>>
                               /\ history' = <<>>) ]_vars

\* C15 witness: the collection is open and empty, in memory and persisted,
\* after a riddle was solved and recorded in this session.
C15_Witness ==
    /\ status = "history" /\ clock > 0
    /\ history = <<>> /\ ls_history = None

\* Whether a stored value is the text of a list of entries.
HoldsList(stored) ==
    stored # None /\ Val(stored).json /\ "list" \in DOMAIN Val(stored)

NewestFirst(h) ==
    \A i, j \in DOMAIN h : i < j => h[i].timestamp >= h[j].timestamp

\* C16: a list call does not throw; it returns the persisted entries,
\* newest first, when a list of entries is stored, and the empty list when
\* nothing is stored or the stored value is anything else.
C16_ListNeverFails ==
    \A i \in DOMAIN calls :
        calls[i].op = "list" =>
            /\ ~calls[i].threw
            /\ IF HoldsList(calls[i].after)
               THEN /\ SameList(calls[i].ret, parse(Val(calls[i].after).list))
                    /\ NewestFirst(calls[i].ret)
               ELSE calls[i].ret = <<>>

\* The number of hints of the riddle the session holds.
HintsOfRiddle == IF riddle = None THEN 0 ELSE Len(Val(riddle).hints)

\* C17: the count of revealed hints is always between 0 and the number of
\* hints of the riddle; no step raises it by more than 1; and once it
\* equals the number of hints, nothing raises it while the riddle is on
\* screen.
C17_HintCap ==
    /\ [](revealedHints \in 0..HintsOfRiddle)
    /\ [][ /\ revealedHints' <= revealedHints + 1
           /\ (/\ Mounted(status, riddle, imageUrl)
               /\ Mounted(status', riddle', imageUrl')
               /\ revealedHints = HintsOfRiddle)
                 => revealedHints' = revealedHints ]_vars

\* C17 witness: every hint of the riddle on screen is revealed, before any
\* answer.
C17_Witness ==
    /\ Mounted(status, riddle, imageUrl)
    /\ ~showResult
    /\ revealedHints = Len(Val(riddle).hints)
    /\ revealedHints > 1

\* C18: once a choice was selected for the riddle the session holds, and
\* until a reset or another riddle, no step changes the count of revealed
\* hints of the riddle on screen.
C18_NoHintAfterAnswer ==
    [][ (/\ answered /\ answered'
         /\ Mounted(status, riddle, imageUrl)
         /\ Mounted(status', riddle', imageUrl'))
          => revealedHints' = revealedHints ]_vars

\* A riddle record with exactly 4 choices and an answerIndex that points
\* at one of them.
Conforms(r) == Len(r.choices) = 4 /\ r.answerIndex \in 0..(Len(r.choices) - 1)

\* C19: every record generateRiddleFromTopic returns conforms, an absent
\* or non-conforming payload making it throw instead; and so does the
\* riddle the session holds.
C19_RiddleConforms ==
    /\ \A resp \in RiddleResponses(ParsePayloads) :
          LET result == generateRiddleFromTopic(<<"c">>, resp)
          IN  result.ok => Conforms(result.value)
    /\ riddle # None => Conforms(Val(riddle))

\* A step that issues a generateRiddleFromTopic call for a typed topic:
\* one more call is suspended, and it waits for the riddle.
IssuesManual(t) ==
    pipes' = Suspend([ pc |-> "generateRiddleFromTopic", topic |-> t ])

\* C20: a riddle is generated for a typed topic only from the idle menu
\* and only when the topic has a character that is not white space; the
\* call is then issued with the topic as typed and the phase becomes
\* generating_riddle.  With an empty or blank topic no step issues a call.
C20_ManualNeedsTopic ==
    [][ /\ \A t \in TopicTexts :
             IssuesManual(t) => (/\ status = "idle"
                                 /\ trim(customTopic) # <<>>
                                 /\ t = customTopic
                                 /\ status' = "generating_riddle")
        /\ (status = "idle" /\ trim(customTopic) = <<>>)
             => (InFlight' > InFlight => status' = "searching") ]_vars

\* C20 witness: with a topic typed, one riddle call for it is suspended and
\* the phase is generating_riddle, nothing else having happened.
C20_Witness ==
    /\ status = "generating_riddle"
    /\ customTopic = <<"c">>
    /\ pipes = SetToBag({[ pc |-> "generateRiddleFromTopic", topic |-> <<"c">> ]})
    /\ riddle = None /\ error = None

\* A step in which a correct answer called saveToHistory and the entry of
\* the riddle did not reach the storage.
RecordNotPersisted ==
    /\ SelectsAnswer
    /\ clock' = clock + 1
    /\ ~some(getHistory(ls_history'), Val(riddle).riddle_question)

\* C21: when the history cannot be persisted during the record of a
\* correct answer, the session stays in phase playing with the answered
\* riddle and no error message is set; the entry is in the history in
\* memory.
C21_StorageFailureNotShown ==
    [][ RecordNotPersisted
          => (/\ status = "playing" /\ status' = "playing"
              /\ error' = error
              /\ riddle' = riddle /\ imageUrl' = imageUrl
              /\ showResult' /\ isCorrect'
              /\ some(history', Val(riddle).riddle_question)) ]_vars

\* C21 witness: a riddle was answered correctly and recorded, its entry is
\* in the history in memory and not in the storage, and the session is in
\* phase playing without an error message.
C21_Witness ==
    /\ status = "playing" /\ error = None
    /\ showResult /\ isCorrect /\ clock > 0
    /\ some(history, Val(riddle).riddle_question)
    /\ ~some(getHistory(ls_history), Val(riddle).riddle_question)

\* C22: a click on the choice at the riddle's answerIndex raises the
\* streak by 1 and calls saveToHistory with the riddle and the image of
\* the session, whatever the storage answers to the writes: the history in
\* memory becomes the list saveToHistory returns.
C22_CorrectAnswerAlwaysRecords ==
    [][ (SelectsAnswer /\ selected' = Some(Val(riddle).answerIndex))
          => (/\ streak' = streak + 1
              /\ clock' = clock + 1
              /\ \E capacity \in Capacities :
                    history' = saveToHistory(ls_history, Val(riddle), Val(imageUrl),
                                             clock + 1, capacity).ret) ]_vars

\* The entries of h that are neither in the history in memory nor in the
\* storage before the step.
Gained(h) ==
    { i \in DOMAIN h :
        /\ \A j \in DOMAIN history : history[j] # h[i]
        /\ \A j \in DOMAIN getHistory(ls_history) :
              getHistory(ls_history)[j] # h[i] }

\* C23: the history in memory or the persisted history gets an entry it
\* did not have only in a step in which the choice at the riddle's
\* answerIndex is selected; there is one such entry, and its question and
\* answer are the riddle's question and choices[answerIndex].
C23_EntryOnlyByCorrectAnswer ==
    [][ \A h \in { history', getHistory(ls_history') } :
          \A i \in Gained(h) :
              /\ SelectsAnswer
              /\ selected' = Some(Val(riddle).answerIndex)
              /\ Cardinality(Gained(h)) = 1
              /\ h[i].question = Val(riddle).riddle_question
              /\ h[i].answer = Val(riddle).choices[Val(riddle).answerIndex + 1]
              /\ h[i].image_url = Val(imageUrl) ]_vars

\* C23 witness: the newest entry of the history, in memory and persisted,
\* is the one of the riddle just answered correctly, whose answer is not
\* its first choice.
C23_Witness ==
    /\ status = "playing" /\ showResult /\ isCorrect /\ clock > 0
    /\ history # <<>>
    /\ history[1].question = Val(riddle).riddle_question
    /\ history[1].answer = Val(riddle).choices[Val(riddle).answerIndex + 1]
    /\ history[1].answer # Val(riddle).choices[1]
    /\ history[1].timestamp = clock
    /\ getHistory(ls_history) = history

\* What the session takes as its streak from the storage: the number the
\* stored text is the decimal form of, or what it had when nothing is
\* stored.
TakenFromStorage(before, after) ==
    IF ls_streak = None THEN after = before ELSE toString(after) = Val(ls_streak)

\* The streak in memory is the number of the stored text, which exists.
TakenFromPersisted(after) ==
    ls_streak # None /\ toString(after) = Val(ls_streak)

\* Reset and re-read, as C24 claims them: a reset changes neither the
\* streak in memory nor the persisted one, and the session takes its
\* streak from the persisted value when it starts and when it reads the
\* storage again.
StreakSurvivesAsClaimed ==
    /\ TakenFromPersisted(streak)
    /\ [][ Reset => (streak' = streak /\ ls_streak' = ls_streak) ]_vars
    /\ [][ toggleMute => (TakenFromPersisted(streak')
                           /\ ls_streak' = ls_streak) ]_vars

\* Reset and re-read, as amended: a reset changes neither the streak in
\* memory nor the persisted one; the session takes its streak from the
\* persisted value when there is one; with nothing persisted it starts at
\* 0 and a re-read keeps the streak in memory.
StreakSurvives ==
    /\ TakenFromStorage(0, streak)
    /\ [][ Reset => (streak' = streak /\ ls_streak' = ls_streak) ]_vars
    /\ [][ toggleMute => (TakenFromStorage(streak, streak')
                           /\ ls_streak' = ls_streak) ]_vars

\* C24 as claimed: after every selection that takes effect the persisted
\* streak is the decimal form of the streak in memory; and the streak
\* survives resets and is read back.
C24_StreakPersisted ==
    /\ [][ SelectsAnswer => ls_streak' = Some(toString(streak')) ]_vars
    /\ StreakSurvivesAsClaimed

\* C24 as amended: after every selection that takes effect the persisted
\* streak is the decimal form of the streak in memory when the storage
\* accepts the write, and keeps its value when the storage refuses it; a
\* reset changes neither; and the session takes its streak from the
\* persisted value when there is one, starting at 0 and keeping the streak
\* in memory on a re-read when there is none.
C24_StreakPersistedWhenAccepted ==
    /\ [][ /\ SelectsAnswer => (SelectsOn(TRUE) \/ SelectsOn(FALSE))
           /\ SelectsOn(TRUE) => ls_streak' = Some(toString(streak'))
           /\ SelectsOn(FALSE) => ls_streak' = ls_streak ]_vars
    /\ StreakSurvives

\* C24 witness: after a correct answer, with a streak persisted by an
\* earlier session, the streak in memory is raised and persisted.
C24_Witness ==
    /\ showResult /\ isCorrect
    /\ streak = 2
    /\ ls_streak = Some(toString(2))

\* C25: the streak is a non-negative integer in every state; while the
\* stored history is a text that does not parse, the history read from it
\* is empty; and the session is in phase error only with the message of a
\* failed remote call, never for what the storage holds.
C25_UnparsableIsNoData ==
    /\ ~isNaN(streak) /\ streak \in Nat
    /\ (clock = 0 /\ ~HoldsList(ls_history)) => history = <<>>
    /\ status = "error" =>
          error \in { Some("Could not fetch trending news. Please try a manual topic."),
                      Some("Failed to generate riddle logic."),
                      Some("Failed to generate the riddle image.") }

\* The place of a remote call in the pipeline.
Stage(p) ==
    CASE p.pc = "fetchTrendingNews" -> 1
      [] p.pc = "generateRiddleFromTopic" -> 2
      [] p.pc = "generateRiddleImage" -> 3

\* A step in which the call p settles and its pipeline issues its next
\* call q.
MovesOn(p, q) == pipes' = Resume(p) (+) SetToBag({q}) /\ Stage(q) = Stage(p) + 1

\* A step that issues a remote call: a start, or a pipeline moving on.
IssuesCall ==
    \/ InFlight' > InFlight
    \/ \E p \in BagToSet(pipes), q \in BagToSet(pipes') : p # q /\ MovesOn(p, q)

\* C26: a step either leaves the calls in flight alone, or starts one
\* pipeline from the idle menu, or settles one call, whose pipeline then
\* ends or issues the call of the next stage, never the same call again
\* nor an earlier one; and while the session is in phase error, after a
\* failure, no step issues a remote call.
C26_NoAutomaticRetry ==
    [][ /\ \/ pipes' = pipes
           \/ /\ status = "idle"
              /\ \E q \in BagToSet(pipes') : pipes' = Suspend(q) /\ Stage(q) <= 2
           \/ \E p \in BagToSet(pipes) :
                \/ pipes' = Resume(p)
                \/ \E q \in BagToSet(pipes') : MovesOn(p, q)
        /\ status = "error" => ~IssuesCall ]_vars

\* A part that carries an inline image payload.
CarriesImage(part) ==
    /\ "inlineData" \in DOMAIN part
    /\ part.inlineData.data # None
    /\ Val(part.inlineData.data) # ""

\* The mime type a part declares, if any: a text that is not empty.
Declares(inline) == inline.mimeType # None /\ Val(inline.mimeType) # ""

\* What C27 asks of generateRiddleImage for one response.
ImageAsClaimed(resp) ==
    LET result == generateRiddleImage(resp)
        carriers == IF resp.kind = "parts"
                    THEN { i \in DOMAIN resp.parts : CarriesImage(resp.parts[i]) }
                    ELSE {}
    IN  IF carriers = {}
        THEN ~result.ok
        ELSE LET first == CHOOSE i \in carriers : \A j \in carriers : i <= j
                 inline == resp.parts[first].inlineData
             IN  /\ result.ok
                 /\ result.value =
                      DataUri(IF Declares(inline) THEN Val(inline.mimeType)
                              ELSE "image/png",
                              Val(inline.data))

\* C27: for every response the image model may give to a call in flight,
\* generateRiddleImage returns the data URI of the first part that carries
\* an inline image payload, with that part's mime type or image/png when
\* it declares none, and throws when no part carries one.  A payload or a
\* mime type that is the empty text counts as none.
C27_FirstInlineImage ==
    \A p \in BagToSet(pipes) :
        p.pc = "generateRiddleImage" =>
            \A resp \in ImageResponses(p.riddleData.image_prompt) :
                ImageAsClaimed(resp)

\* C27 witness: the image of the riddle on screen is the data URI of the
\* third of four parts, the two before it carrying no payload, with the
\* mime type that part declares.
C27_Witness ==
    /\ status = "playing" /\ riddle # None
    /\ imageUrl = Some(DataUri("image/jpeg",
                                Val(Painted(Val(riddle).image_prompt))))

\* C28: a pipeline issues generateRiddleFromTopic with the topic it
\* resolved or was given, and generateRiddleImage with the image_prompt of
\* the riddle it received and the session stores; and the phase goes from
\* searching to generating_riddle when the topic arrives, from
\* generating_riddle to generating_image when the riddle arrives, and from
\* generating_image to playing when the image arrives.
C28_PipelineOrdered ==
    [][ /\ \A p \in BagToSet(pipes), q \in BagToSet(pipes') :
             (p # q /\ MovesOn(p, q)) =>
                 IF Stage(p) = 1
                 THEN /\ q.topic \in Headlines
                      /\ status = "searching" /\ status' = "generating_riddle"
                 ELSE /\ q.riddleData.news_topic = p.topic
                      /\ riddle' = Some(q.riddleData)
                      /\ status = "generating_riddle"
                      /\ status' = "generating_image"
        /\ (Settles /\ status' = "playing") => status = "generating_image"
        /\ \A q \in BagToSet(pipes') :
             (InFlight' > InFlight /\ pipes' = Suspend(q)) =>
                 IF Stage(q) = 1 THEN status' = "searching"
                 ELSE /\ Stage(q) = 2 /\ q.topic = customTopic
                      /\ status' = "generating_riddle" ]_vars

\* C29: on every store, a record call with a new question, whatever the
\* storage has room for, ends after at least one and at most n calls of
\* setItem, n being the length of the list after unshift and slice; every
\* failed call but the last dropped the one last entry, so the list it
\* returns is the first n - (attempts - 1) entries of that list; and it
\* wrote exactly when that length fits the storage.
C29_RecordTerminates ==
    \A r \in StoreRiddles, image \in StoreImages, k \in StoreCapacities :
        (isArray(ls_history) /\ ~some(getHistory(ls_history), r.riddle_question))
            => LET h1 == <<newItem(r, image, clock + 1)>> \o getHistory(ls_history)
                   n == IF Len(h1) > MAX_ITEMS THEN MAX_ITEMS ELSE Len(h1)
                   saved == saveToHistory(ls_history, r, image, clock + 1, k)
               IN  /\ saved.attempts \in 1..n
                   /\ Len(saved.ret) = n - (saved.attempts - 1)
                   /\ SameList(saved.ret, SubSeq(h1, 1, Len(saved.ret)))
                   /\ saved.wrote <=> Len(saved.ret) <= k

\* C29 witness: a record call with a new question on a store of 12 entries
\* ended without a write, every attempt having failed, and returned the
\* one entry left.
C29_Witness ==
    /\ Recorded
    /\ ~LastCall.wrote /\ ~LastCall.threw
    /\ Len(LastCall.before) = MAX_ITEMS
    /\ ~some(LastCall.before, LastCall.question)
    /\ SameList(LastCall.ret, <<Val(LastCall.item)>>)
    /\ SameList(getHistory(ls_history), LastCall.before)

C30_Witness ==
    /\ Recorded
    /\ LastCall.wrote
    /\ Len(LastCall.before) = MAX_ITEMS
    /\ Len(LastCall.ret) \in 3..(MAX_ITEMS - 1)
    /\ SameEntry(LastCall.ret[1], Val(LastCall.item))
    /\ SameEntry(LastCall.ret[2], LastCall.before[1])
    /\ SameList(getHistory(ls_history), LastCall.ret)

\* C31: on every store, for a riddle whose question is not stored and for
\* every number of entries the storage has room for, the list
\* saveToHistory returns starts with the entry it built for that riddle.
C31_NewEntryNeverEvicted ==
    \A r \in StoreRiddles, image \in StoreImages, k \in StoreCapacities :
        (isArray(ls_history) /\ ~some(getHistory(ls_history), r.riddle_question))
            => LET saved == saveToHistory(ls_history, r, image, clock + 1, k)
               IN  /\ saved.ret # <<>>
                   /\ SameEntry(saved.ret[1], newItem(r, image, clock + 1))

\* C31 witness: a record call with a new question on a store of 12 entries
\* wrote after eleven failed attempts, and what it returned and wrote is
\* the new entry alone.
C31_Witness ==
    /\ Recorded
    /\ LastCall.wrote
    /\ Len(LastCall.before) = MAX_ITEMS
    /\ ~some(LastCall.before, LastCall.question)
    /\ SameList(LastCall.ret, <<Val(LastCall.item)>>)
    /\ SameList(getHistory(ls_history), <<Val(LastCall.item)>>)

\* Whether e is an entry of the list h.
Has(h, e) == \E i \in DOMAIN h : SameEntry(h[i], e)

\* C32: after every record call, each entry that was stored before the
\* call is in the list the call returned exactly when it is in the list
\* stored after the call.
C32_OlderEntriesAgree ==
    \A i \in DOMAIN calls :
        (calls[i].op = "record" /\ ~calls[i].threw) =>
            \A j \in DOMAIN calls[i].before :
                Has(calls[i].ret, calls[i].before[j])
                    <=> Has(getHistory(calls[i].after), calls[i].before[j])

\* C33: an entry of the history in memory that is not in the storage (its
\* record could not be persisted) stays in the history in memory in every
\* step but the Clear of the collection.
C33_UnpersistedEntryKept ==
    [][ \A i \in DOMAIN history :
          ~Has(getHistory(ls_history), history[i])
              => (Has(history', history[i]) \/ handleClearHistory) ]_vars

\* C34: whenever the phase is idle, the session holds no riddle, no image
\* and no error message.
C34_IdleIsClear ==
    status = "idle" => (riddle = None /\ imageUrl = None /\ error = None)

\* C34 witness: the session is idle and clear after a solved and recorded
\* round, with a call of an abandoned pipeline still in flight.
C34_Witness ==
    /\ status = "idle" /\ clock > 0 /\ InFlight > 0
    /\ history # <<>>
    /\ riddle = None /\ imageUrl = None /\ error = None

\* C35: whenever the phase is playing, the session holds a riddle and an
\* image, so that GameScreen is rendered.
C35_PlayingHasRiddleAndImage ==
    status = "playing" => (riddle # None /\ imageUrl # None)

\* The images generateRiddleImage can return for the prompt of riddle r.
ImagesOf(r) ==
    { generateRiddleImage(resp).value :
        resp \in { x \in ImageResponses(r.image_prompt) : generateRiddleImage(x).ok } }

\* C36: whenever the phase is playing with a riddle and an image, the
\* image is one generateRiddleImage returns for the image_prompt of that
\* riddle; and the image of every entry recorded in this session is one of
\* the riddle with the entry's question and answer.
C36_ImageOfTheRiddle ==
    /\ (status = "playing" /\ riddle # None /\ imageUrl # None)
          => Val(imageUrl) \in ImagesOf(Val(riddle))
    /\ \A i \in DOMAIN history :
          history[i].timestamp > 0 =>
              \E p \in Payloads :
                  /\ p.riddle_question = history[i].question
                  /\ p.choices[p.answerIndex + 1] = history[i].answer
                  /\ history[i].image_url \in ImagesOf(p)

\* C37: with no RESET and remote calls that all complete, a session in one
\* of the loading phases (searching, generating_riddle, generating_image)
\* eventually reaches playing or error.
C37_LoadingEnds ==
    (status \in {"searching", "generating_riddle", "generating_image"})
        ~> (status \in {"playing", "error"})

\* A pipeline that went through its loading phases and ended: nothing is
\* suspended any more and the phase is playing with the riddle and its
\* image.
C37_Witness ==
    /\ status = "playing" /\ InFlight = 0
    /\ riddle # None /\ imageUrl # None

====
